---- MODULE Spec2Model ----
(***************************************************************************)
(* A model of the two engines of the repository:                           *)
(*   - the resumable batch runner of src/src/llm_executor.py               *)
(*     (_process_single_file and its helpers, and main's job loop), and    *)
(*   - the deduplicated fetch/annotate engine of src/src/article_fetcher.py*)
(*     (ArticleFetcher.clean_data, fetch_article_info and                  *)
(*     _get_article_details).                                              *)
(* The external collaborators (the inference endpoint, the HTTP fetch, the *)
(* document parser) are the environment: what they answer is chosen        *)
(* nondeterministically from small sets.                                   *)
(***************************************************************************)
EXTENDS Integers, Sequences, FiniteSets, TLC

VARIABLES
    \* ---- batch runner (llm_executor.py) ----
    df,              \* the loaded input table: a sequence of rows
    columns,         \* the column names of the input table, in file order
    chat,            \* what ollama.chat does for each input row (fixed per row)
    store,           \* the output CSV file: exists, header, data rows
    store0,          \* the output file as it was before the first run
    header_writes,   \* history: how often a run wrote the header line
    pc,              \* position of the batch process
    processed_count, \* the value _initialize_output_file returned to this run
    index,           \* the input row the loop is at (1-based)
    assessment,      \* locals of the loop body
    confidence,
    explanation,
    response_text,   \* function-level local: survives from one iteration to the next
    calls,           \* history: rows for which this run issued ollama.chat, in order
    outcomes,        \* history: for each row the runs wrote, the branch of the try
                     \* statement taken and the input row it was taken for
    runs,            \* number of runs started so far
    \* ---- article fetcher (article_fetcher.py) ----
    fdata,           \* ArticleFetcher.data (self.data)
    clean_file,      \* the table stored at clean_data_path, None if there is no file
    fpc,             \* position of fetch_article_info
    work,            \* the local DataFrame `data` of fetch_article_info
    unique_articles, \* the (article_id, url) pairs still to scrape / scraped
    fpos,            \* position of the scraping loop in unique_articles
    id_mappings,     \* article_id -> scraped (title, content)
    fetched,         \* history: urls handed to _get_article_details, in order
    input0,          \* history: self.data as it was when fetch_article_info was entered
    returned,        \* the value fetch_article_info returned
    exported,        \* the table last written to articles_info_path
    fruns,           \* number of fetch_article_info calls so far
    input_file,      \* the table stored at input_file, None if there is no file
    cruns,           \* number of clean_data calls so far
    creport,         \* what the last clean_data call printed last, and how it ended
    \* ---- one call of _get_article_details ----
    reply,           \* what requests.get / the parser do for the call
    details,         \* the call's result
    \* ---- main() of llm_executor.py ----
    args,            \* the namespace parse_args returned, None before
    files_to_run,    \* the file names selected by --file-type
    job_files,       \* for every file name, the input file: None if absent
    job_stores,      \* for every file name, the output file of its job
    mpos,            \* position of main's loop in files_to_run
    mpc,             \* position of main
    mraised,         \* the exception that left main, None if none
    \* ---- two jobs and their output paths (_setup_output_file) ----
    job_a,           \* the first job: input file path and model name
    job_b,           \* the second job
    path_a,          \* the output path _setup_output_file gave the first job
    path_b,          \* the output path it gave the second job
    out_file,        \* the output file the first job left: its path and content
    resume_b,        \* the processed_count the second job starts with
    spc              \* position of the two-job scenario

batchVars == <<df, columns, chat, store, store0, header_writes, pc, processed_count, index, assessment,
               confidence, explanation, response_text, calls, outcomes, runs>>
fetchVars == <<fdata, clean_file, fpc, work, unique_articles, fpos, id_mappings, fetched,
               input0, returned, exported, fruns, input_file, cruns, creport>>
cleanVars == <<input_file, cruns, creport>>
detailVars == <<reply, details>>
mainVars == <<args, files_to_run, job_files, job_stores, mpos, mpc, mraised>>
setupVars == <<job_a, job_b, path_a, path_b, out_file, resume_b, spc>>
vars == <<batchVars, fetchVars, detailVars, mainVars, setupVars>>

----------------------------------------------------------------------------
(* Bounds of the model *)

MaxRows == 2      \* input tables of the batch runner have 0..MaxRows rows
MaxRuns == 2      \* runs of _process_single_file over the same input
MaxPre == 2       \* data rows of an output file that pre-exists the first run
MaxElems == 3     \* elements (headings, paragraphs, containers) of a fetched document
NumUrls == 2      \* distinct url values of the fetcher's table
MaxFetchRows == 3 \* rows of the fetcher's table
MaxFetchRuns == 2 \* calls of fetch_article_info on the same fetcher
MaxCleanRuns == 1 \* calls of clean_data on the same fetcher
NumJobs == 2      \* entries of PROMPT_FILE_MAP
MaxExtra == 1     \* paragraphs a long document has beyond the cap of the fallback scan

----------------------------------------------------------------------------
(* Values *)

\* Python None / an empty CSV field
None == [none |-> TRUE]
\* an integer value
IntVal(n) == [int |-> n]
\* a string value
StrVal(s) == [str |-> s]
\* a key that is missing from a JSON object
Absent == [absent |-> TRUE]
\* the name response_text is not yet among locals()
Unbound == [unbound |-> TRUE]

MODEL_NAME == "llama3"

LLM_RESULT_COLUMNS == <<"llm_assessment", "llm_confidence", "llm_explanation", "llm_model">>

FailureLabels == {"VALIDATION_FAIL", "OLLAMA_RESPONSE_FAIL", "INFERENCE_FAIL"}

Outcomes == {"success", "schema-validation-failure", "upstream-error", "general-failure"}

\* A response text: optional surrounding whitespace around a payload. The
\* payload is either no JSON at all or a JSON object with three keys, each a
\* string, an integer or missing.
Text(lead, payload, trail) == [lead |-> lead, payload |-> payload, trail |-> trail]

Json(a, c, e) == [json |-> TRUE, assessment |-> a, confidence_score |-> c, explanation |-> e]

NotJson == [json |-> FALSE, garbage |-> "I think the article is biased"]

\* str.strip(): the text without its leading and trailing whitespace
Strip(text) == [text EXCEPT !.lead = "", !.trail = ""]

\* What ollama.chat can do for one row.
Content(text) == [kind |-> "content", content |-> text]
ChatValidationError == [kind |-> "validation_error"]
ChatResponseError == [kind |-> "response_error", e |-> "model not found"]
ChatException == [kind |-> "exception", e |-> "connection refused"]
\* the endpoint accepts the request and never answers
ChatHangs == [kind |-> "hang"]

Replies ==
    { Content(Text("", Json(StrVal("is-biased"), IntVal(87), StrVal("because")), "")),
      Content(Text(" ", Json(StrVal("is-not-biased"), IntVal(55), StrVal("balanced")), "\n")),
      Content(Text("", Json(StrVal("unsure"), IntVal(150), StrVal("hard to say")), "")),
      Content(Text("", Json(StrVal("is-biased"), StrVal("high"), StrVal("because")), "")),
      Content(Text("", Json(StrVal("is-biased"), IntVal(87), Absent), "")),
      Content(Text("", NotJson, "\n")),
      ChatValidationError,
      ChatResponseError,
      ChatException }

\* PoliticalBiasAssessment.model_validate_json: the text must be a JSON object
\* whose assessment is a string, confidence_score an integer, explanation a
\* string. Surrounding whitespace is not an error.
SchemaValid(text) ==
    /\ text.payload.json
    /\ DOMAIN text.payload.assessment = {"str"}
    /\ DOMAIN text.payload.confidence_score = {"int"}
    /\ DOMAIN text.payload.explanation = {"str"}

----------------------------------------------------------------------------
(* Batch runner: helpers *)

\* Column layouts of an input file: the prompt last, the prompt first with a
\* further column, and a file that has no 'prompt' column.
InputLayouts == { <<"article_id", "prompt">>,
                  <<"prompt", "source", "article_id">>,
                  <<"article_id">> }

\* original_columns.remove('prompt')
RECURSIVE Remove(_, _)
Remove(cols, c) ==
    IF cols = <<>> THEN <<>>
    ELSE IF Head(cols) = c THEN Tail(cols)
    ELSE <<Head(cols)>> \o Remove(Tail(cols), c)

Contains(cols, c) == \E i \in 1..Len(cols) : cols[i] = c

\* all_columns = original_columns + LLM_RESULT_COLUMNS
all_columns == Remove(columns, "prompt") \o LLM_RESULT_COLUMNS

\* _load_data: None for a file that is not there, an empty table or one
\* without a 'prompt' column
load_data(file) ==
    IF file = None THEN None
    ELSE IF file.rows = <<>> \/ ~Contains(file.columns, "prompt") THEN None
    ELSE [data |-> file]

\* pd.read_csv(output_path, usecols=...): fails unless every wanted column is
\* in the file's header; otherwise the number of data rows.
ReadCount(file, usecols) ==
    IF \A i \in 1..Len(usecols) : Contains(file.header, usecols[i])
    THEN Len(file.rows)
    ELSE -1

\* A variant that never resumes: processed_count stays 0 for an existing file.
initialize_output_file_no_resume(file, cols) ==
    IF ~file.exists
    THEN [file |-> [exists |-> TRUE, header |-> cols, rows |-> <<>>], count |-> 0,
          header_written |-> TRUE]
    ELSE [file |-> file, count |-> 0, header_written |-> FALSE]

\* A variant that starts the file afresh when it cannot read it: the header
\* is written over whatever the file held.
initialize_output_file_rewrites(file, cols) ==
    IF ~file.exists
    THEN [file |-> [exists |-> TRUE, header |-> cols, rows |-> <<>>], count |-> 0,
          header_written |-> TRUE]
    ELSE LET usecols == SelectSeq(cols, LAMBDA c : ~Contains(LLM_RESULT_COLUMNS, c))
             n == ReadCount(file, usecols)
         IN IF n < 0
            THEN [file |-> [exists |-> TRUE, header |-> cols, rows |-> <<>>], count |-> 0,
                  header_written |-> TRUE]
            ELSE [file |-> file, count |-> n, header_written |-> FALSE]

\* _initialize_output_file: the file afterwards and processed_count
initialize_output_file(file, cols) ==
    IF ~file.exists
    THEN [file |-> [exists |-> TRUE, header |-> cols, rows |-> <<>>], count |-> 0,
          header_written |-> TRUE]
    ELSE LET usecols == SelectSeq(cols, LAMBDA c : ~Contains(LLM_RESULT_COLUMNS, c))
             n == ReadCount(file, usecols)
         IN [file |-> file, count |-> IF n < 0 THEN 0 ELSE n, header_written |-> FALSE]

\* A variant slicing one row too far: df.iloc[processed_count + 1:]
FirstRowOffByOne(count) == count + 2

\* A variant that ignores the checkpoint: df.iloc[0:]
FirstRowFromTop(count) == 1

\* df.iloc[processed_count:] : the first row the loop visits (1-based)
FirstRow(count) == count + 1

\* A variant whose validation handler does not reset confidence: it keeps the
\* integer the response carried.
TryBlockKeepsConfidence(r, rt) ==
    IF r.kind = "content"
    THEN LET text == Strip(r.content) IN
         IF SchemaValid(text)
         THEN [outcome |-> "success",
               assessment |-> text.payload.assessment.str,
               confidence |-> IntVal(text.payload.confidence_score.int),
               explanation |-> [llm |-> text.payload.explanation.str],
               response_text |-> text]
         ELSE [outcome |-> "schema-validation-failure",
               assessment |-> "VALIDATION_FAIL",
               confidence |-> IF text.payload.json
                                 /\ DOMAIN text.payload.confidence_score = {"int"}
                              THEN text.payload.confidence_score
                              ELSE None,
               explanation |-> [raw |-> text],
               response_text |-> text]
    ELSE [outcome |-> IF r.kind = "validation_error" THEN "schema-validation-failure"
                      ELSE IF r.kind = "response_error" THEN "upstream-error"
                      ELSE "general-failure",
          assessment |-> IF r.kind = "validation_error" THEN "VALIDATION_FAIL"
                         ELSE IF r.kind = "response_error" THEN "OLLAMA_RESPONSE_FAIL"
                         ELSE "INFERENCE_FAIL",
          confidence |-> None,
          explanation |-> [msg |-> "failed"],
          response_text |-> rt]

\* The try statement of the loop body for one row: the reply of ollama.chat
\* and the current binding of response_text decide the branch.
TryBlock(r, rt) ==
    IF r.kind = "content"
    THEN LET text == Strip(r.content) IN
         IF SchemaValid(text)
         THEN [outcome |-> "success",
               assessment |-> text.payload.assessment.str,
               confidence |-> IntVal(text.payload.confidence_score.int),
               explanation |-> [llm |-> text.payload.explanation.str],
               response_text |-> text]
         ELSE [outcome |-> "schema-validation-failure",
               assessment |-> "VALIDATION_FAIL",
               confidence |-> None,
               explanation |-> [raw |-> text],
               response_text |-> text]
    ELSE IF r.kind = "validation_error"
    THEN [outcome |-> "schema-validation-failure",
          assessment |-> "VALIDATION_FAIL",
          confidence |-> None,
          explanation |-> IF rt # Unbound THEN [raw |-> rt]
                          ELSE [msg |-> "Validation failed before response was retrieved."],
          response_text |-> rt]
    ELSE IF r.kind = "response_error"
    THEN [outcome |-> "upstream-error",
          assessment |-> "OLLAMA_RESPONSE_FAIL",
          confidence |-> None,
          explanation |-> [msg |-> "Ollama response error: ", e |-> r.e],
          response_text |-> rt]
    ELSE [outcome |-> "general-failure",
          assessment |-> "INFERENCE_FAIL",
          confidence |-> None,
          explanation |-> [msg |-> "General system error: ", e |-> r.e],
          response_text |-> rt]

\* result = row.to_dict(); result.update(...): the input row's fields and the
\* four result fields
Result(row, a, c, e) ==
    [k \in DOMAIN row \cup {"llm_assessment", "llm_confidence", "llm_explanation",
                            "llm_model"} |->
        IF k = "llm_assessment" THEN StrVal(a)
        ELSE IF k = "llm_confidence" THEN c
        ELSE IF k = "llm_explanation" THEN e
        ELSE IF k = "llm_model" THEN StrVal(MODEL_NAME)
        ELSE row[k]]

\* A variant that writes the result dict as it is, the prompt included:
\* DataFrame([result]) without columns=all_columns
ResultRowAllFields(row, a, c, e) ==
    LET result == Result(row, a, c, e)
        fields == columns \o LLM_RESULT_COLUMNS
    IN [i \in 1..Len(fields) |-> result[fields[i]]]

\* DataFrame([result], columns=all_columns).to_csv(mode='a', header=False):
\* one line, the values of the all_columns fields in that order
ResultRow(row, a, c, e) ==
    LET result == Result(row, a, c, e)
    IN [i \in 1..Len(all_columns) |-> result[all_columns[i]]]

----------------------------------------------------------------------------
(* Batch runner: state machine *)

\* the set of the elements of a sequence
Range(seq) == { seq[i] : i \in 1..Len(seq) }

\* the input table with n rows under a column layout; row i carries its own
\* article_id
InputTable(cols, n) ==
    [i \in 1..n |-> [c \in Range(cols) |-> IF c = "article_id" THEN IntVal(i) ELSE StrVal(c)]]

\* a line that something else wrote to the output file under header h
ForeignRow(h) == [i \in 1..Len(h) |-> StrVal("foreign")]

NoFile == [exists |-> FALSE, header |-> <<>>, rows |-> <<>>]

\* output files that may be there before the first run: none, or a file with
\* this job's header or another header, holding 0..MaxPre rows
InitialStores ==
    {NoFile} \cup
    { [exists |-> TRUE, header |-> h, rows |-> [i \in 1..m |-> ForeignRow(h)]] :
        h \in {all_columns, <<"other_id">> \o LLM_RESULT_COLUMNS}, m \in 0..MaxPre }

BatchIdle ==
    /\ pc = "idle"
    /\ processed_count = 0
    /\ index = 0
    /\ assessment = None
    /\ confidence = None
    /\ explanation = None
    /\ response_text = Unbound
    /\ calls = <<>>
    /\ outcomes = <<>>
    /\ runs = 0
    /\ header_writes = 0

BatchInit ==
    /\ columns \in InputLayouts
    /\ \E n \in 0..MaxRows :
          /\ df = InputTable(columns, n)
          /\ chat \in [1..n -> Replies]
    /\ store \in InitialStores
    /\ store0 = store
    /\ BatchIdle

\* _process_single_file up to the loop: load the data, set up and initialise
\* the output file. A new process starts with no locals bound.
StartRun ==
    /\ pc \in {"idle", "killed", "done", "skipped"}
    /\ runs < MaxRuns
    /\ runs' = runs + 1
    /\ calls' = <<>>
    /\ assessment' = None
    /\ confidence' = None
    /\ explanation' = None
    /\ response_text' = Unbound
    /\ IF load_data([columns |-> columns, rows |-> df]) = None
       THEN /\ pc' = "skipped"
            /\ UNCHANGED <<store, header_writes, processed_count, index>>
       ELSE LET init == initialize_output_file(store, all_columns) IN
            /\ store' = init.file
            /\ header_writes' = header_writes + (IF init.header_written THEN 1 ELSE 0)
            /\ processed_count' = init.count
            /\ index' = FirstRow(init.count)
            /\ pc' = "loop"
    /\ UNCHANGED <<df, columns, chat, store0, outcomes>>
    /\ UNCHANGED <<fetchVars, detailVars, mainVars, setupVars>>

\* One iteration up to the end of the try statement: the inference call for
\* the row at `index` and the classification of what it did.
Infer ==
    /\ pc = "loop"
    /\ index <= Len(df)
    /\ chat[index].kind # "hang"   \* no timeout is passed: the call lasts until the endpoint answers
    /\ LET t == TryBlock(chat[index], response_text) IN
          /\ assessment' = t.assessment
          /\ confidence' = t.confidence
          /\ explanation' = t.explanation
          /\ response_text' = t.response_text
          /\ outcomes' = Append(outcomes, [branch |-> t.outcome, row |-> index])
    /\ calls' = Append(calls, index)
    /\ pc' = "append"
    /\ UNCHANGED <<df, columns, chat, store, store0, header_writes, processed_count,
                   index, runs>>
    /\ UNCHANGED <<fetchVars, detailVars, mainVars, setupVars>>

\* A variant that buffers the result rows instead of appending each one
\* before the next call: the file is not written inside the loop.
AppendRowBuffered ==
    /\ pc = "append"
    /\ index' = index + 1
    /\ pc' = "loop"
    /\ UNCHANGED <<df, columns, chat, store, store0, header_writes, processed_count,
                   assessment, confidence, explanation, response_text, calls,
                   outcomes, runs>>
    /\ UNCHANGED <<fetchVars, detailVars, mainVars, setupVars>>

\* The rest of the iteration: build the result row and append it to the file.
AppendRow ==
    /\ pc = "append"
    /\ store' = [store EXCEPT !.rows =
                    Append(@, ResultRow(df[index], assessment, confidence, explanation))]
    /\ index' = index + 1
    /\ pc' = "loop"
    /\ UNCHANGED <<df, columns, chat, store0, header_writes, processed_count,
                   assessment, confidence,
                   explanation, response_text, calls, outcomes, runs>>
    /\ UNCHANGED <<fetchVars, detailVars, mainVars, setupVars>>

\* The loop is exhausted: the run ends.
Finish ==
    /\ pc = "loop"
    /\ index > Len(df)
    /\ pc' = "done"
    /\ UNCHANGED <<df, columns, chat, store, store0, header_writes, processed_count,
                   index, assessment,
                   confidence, explanation, response_text, calls, outcomes, runs>>
    /\ UNCHANGED <<fetchVars, detailVars, mainVars, setupVars>>

\* The process is killed. A kill before the append leaves no partial row; the
\* outcome computed for the row that was not written is lost with the process.
Kill ==
    /\ pc \in {"loop", "append"}
    /\ pc' = "killed"
    /\ outcomes' = SubSeq(outcomes, 1, Len(store.rows) - Len(store0.rows))
    /\ UNCHANGED <<df, columns, chat, store, store0, header_writes, processed_count,
                   index, assessment,
                   confidence, explanation, response_text, calls, runs>>
    /\ UNCHANGED <<fetchVars, detailVars, mainVars, setupVars>>

BatchNext == StartRun \/ Infer \/ AppendRow \/ Finish \/ Kill

----------------------------------------------------------------------------
(* Batch runner: properties *)

\* the rows the runs of this model appended, after whatever the file held before
Written == SubSeq(store.rows, Len(store0.rows) + 1, Len(store.rows))

\* the value a line written under all_columns holds for a column
Field(line, name) == line[CHOOSE i \in 1..Len(all_columns) : all_columns[i] = name]

\* The store one uninterrupted run over rows i..N produces, entered with
\* response_text bound to rt.
RECURSIVE RunFrom(_, _)
RunFrom(i, rt) ==
    IF i > Len(df) THEN <<>>
    ELSE LET t == TryBlock(chat[i], rt)
         IN <<ResultRow(df[i], t.assessment, t.confidence, t.explanation)>>
            \o RunFrom(i + 1, t.response_text)

UninterruptedStore == RunFrom(1, Unbound)

\* C1 (as claimed): a run that resumes on the M rows prior runs wrote calls
\* the endpoint for rows M..N-1 only, and when it ends the store is row for
\* row the store of one uninterrupted run over all N rows.
C1_ResumeEqualsUninterrupted ==
    (store0 = NoFile /\ pc = "done") =>
        /\ calls = [k \in 1..(Len(df) - processed_count) |-> processed_count + k]
        /\ store.rows = UninterruptedStore

\* the outcome a stored row's label stands for
LabelOutcome(label) ==
    IF label = "VALIDATION_FAIL" THEN "schema-validation-failure"
    ELSE IF label = "OLLAMA_RESPONSE_FAIL" THEN "upstream-error"
    ELSE IF label = "INFERENCE_FAIL" THEN "general-failure"
    ELSE "success"

Totality ==
    /\ Len(store.rows) = Len(df)
    /\ Len(outcomes) = Len(store.rows)
    /\ \A j \in 1..Len(store.rows) :
          /\ outcomes[j].branch \in Outcomes
          /\ LabelOutcome(Field(store.rows[j], "llm_assessment").str) = outcomes[j].branch

\* C2 (as claimed): whatever output store the first run found, whenever a run
\* ends the store holds exactly N data rows.
C2_TotalityOnAnyStore == pc = "done" => Len(store.rows) = Len(df)

\* C2 (amended): when the output store did not exist before the first run,
\* then after any sequence of runs, killed and restarted, whenever a run ends
\* the store holds exactly N data rows and each row carries the label of
\* exactly one outcome, the one its row was classified into.
C2_OutcomeTotality == (store0 = NoFile /\ pc = "done") => Totality

C2_Witness ==
    /\ store0 = NoFile /\ pc = "done" /\ runs = 2
    /\ processed_count = 1 /\ Len(df) = 2 /\ Len(store.rows) = 2

\* C3: over any sequence of runs on a store these runs created, the data rows
\* of the store are the outcomes of input rows 0..k-1 in input order for some
\* k <= N, and the checkpoint read at startup is at most N.
C3_ContiguousPrefix ==
    store0 = NoFile =>
        /\ Len(store.rows) <= Len(df)
        /\ processed_count <= Len(df)
        /\ \A j \in 1..Len(store.rows) :
              LET t == TryBlock(chat[j], Unbound) IN
              /\ Field(store.rows[j], "article_id") = df[j].article_id
              /\ Field(store.rows[j], "llm_assessment") = StrVal(t.assessment)
              /\ Field(store.rows[j], "llm_confidence") = t.confidence
              /\ LabelOutcome(Field(store.rows[j], "llm_assessment").str) = t.outcome

C3_Witness ==
    /\ store0 = NoFile /\ runs = 2 /\ pc = "append"
    /\ processed_count = 1 /\ Len(store.rows) = 1 /\ index = 2

\* C9: every row the batch runner writes has a null llm_confidence when its
\* outcome is one of the three failures and the validated confidence_score of
\* its own response when the outcome is success; its outcome is one of the four.
C9_ConfidenceNullOnFailure ==
    \A j \in 1..Len(Written) :
        LET o == outcomes[j] IN
        /\ o.branch \in Outcomes
        /\ o.branch # "success" => Field(Written[j], "llm_confidence") = None
        /\ o.branch = "success" =>
              /\ chat[o.row].kind = "content"
              /\ Field(Written[j], "llm_confidence") =
                    IntVal(chat[o.row].content.payload.confidence_score.int)

C9_Witness ==
    /\ Len(Written) = 2
    /\ outcomes[1].branch = "schema-validation-failure"
    /\ chat[outcomes[1].row].kind = "content"
    /\ chat[outcomes[1].row].content.payload.json
    /\ outcomes[2].branch = "success"

\* C10 (as claimed): the llm_explanation of a row recorded as VALIDATION_FAIL
\* is the response text of the call made for that row (the placeholder when
\* that call returned no text), never text kept from an earlier row's call.
C10_ExplanationIsOwnResponse ==
    \A j \in 1..Len(Written) :
        LET o == outcomes[j] IN
        o.branch = "schema-validation-failure" =>
            Field(Written[j], "llm_explanation") =
                IF chat[o.row].kind = "content"
                THEN [raw |-> Strip(chat[o.row].content)]
                ELSE [msg |-> "Validation failed before response was retrieved."]

\* the two values the system prompt allows for 'assessment'
AllowedAssessments == {"is-biased", "is-not-biased"}

\* the range the system prompt allows for 'confidence_score'
ConfidenceRange == 1..100

\* C11 (as claimed): a row is recorded with outcome success only if its
\* response's confidence is an integer in 1..100; a response whose
\* confidence_score is an integer outside 1..100 is recorded as a
\* schema-validation failure with null confidence.
C11_SuccessConfidenceInRange ==
    \A j \in 1..Len(Written) :
        LET o == outcomes[j]
            r == chat[o.row]
            c == Field(Written[j], "llm_confidence")
        IN /\ o.branch = "success" => (DOMAIN c = {"int"} /\ c.int \in ConfidenceRange)
           /\ ( /\ r.kind = "content"
                /\ r.content.payload.json
                /\ DOMAIN r.content.payload.confidence_score = {"int"}
                /\ r.content.payload.confidence_score.int \notin ConfidenceRange )
              => (o.branch = "schema-validation-failure" /\ c = None)

\* C12 (as claimed): a row is recorded with outcome success only if its
\* response's assessment is 'is-biased' or 'is-not-biased'; the llm_assessment
\* of every written row is one of five values, the two allowed assessments or
\* the three failure labels.
C12_AssessmentOneOfFive ==
    \A j \in 1..Len(Written) :
        LET a == Field(Written[j], "llm_assessment").str IN
        /\ outcomes[j].branch = "success" => a \in AllowedAssessments
        /\ a \in AllowedAssessments \cup FailureLabels

\* C13: within one run the inference calls are issued for the rows from the
\* resume position on, one call per row in input order and none for a row
\* below it; over runs on a store these runs created, the rows in the store
\* are the rows recorded before the run started (all below the resume
\* position) and the rows this run called the endpoint for, so a recorded row,
\* also one recorded with a failure label, is never issued again.
C13_NoRetry ==
    /\ calls = [k \in 1..Len(calls) |-> processed_count + k]
    /\ pc = "done" =>
          Len(calls) = IF Len(df) > processed_count THEN Len(df) - processed_count ELSE 0
    /\ store0 = NoFile =>
          /\ pc \in {"loop", "done"} => Len(store.rows) = processed_count + Len(calls)
          /\ pc = "append" =>
                /\ Len(store.rows) = processed_count + Len(calls) - 1
                /\ calls[Len(calls)] = Len(store.rows) + 1
          /\ pc = "killed" => Len(store.rows) <= processed_count + Len(calls)

C13_Witness ==
    /\ store0 = NoFile /\ runs = 2 /\ pc = "done"
    /\ processed_count = 1 /\ calls = <<2>>
    /\ Field(store.rows[1], "llm_assessment").str \in FailureLabels
    /\ Len(store.rows) = 2

\* the input columns other than 'prompt', in input order
KeptColumns == SelectSeq(columns, LAMBDA c : c # "prompt")

\* C18: the header of a store the runs created, and every line the runs
\* append to any store, carry the input columns minus 'prompt' in input
\* order followed by llm_assessment, llm_confidence, llm_explanation,
\* llm_model; an appended line has one value per column, the input row's own
\* values first, also when the outcome is a failure and the confidence null;
\* the header is written once, by the run that creates the store, and never
\* to a store that was already there.
C18_OutputColumns ==
    LET kept == Len(KeptColumns) IN
    /\ (store0 = NoFile /\ store.exists) =>
          store.header = KeptColumns \o <<"llm_assessment", "llm_confidence",
                                          "llm_explanation", "llm_model">>
    /\ header_writes = IF store0 = NoFile /\ store.exists THEN 1 ELSE 0
    /\ \A j \in 1..Len(Written) :
          LET line == Written[j]
              o == outcomes[j]
          IN /\ Len(line) = kept + 4
             /\ \A i \in 1..kept : line[i] = df[o.row][KeptColumns[i]]
             /\ DOMAIN line[kept + 1] = {"str"}
             /\ LabelOutcome(line[kept + 1].str) = o.branch
             /\ o.branch # "success" => line[kept + 2] = None
             /\ o.branch = "success" => DOMAIN line[kept + 2] = {"int"}
             /\ line[kept + 3] # None
             /\ line[kept + 4] = StrVal(MODEL_NAME)

C18_Witness ==
    /\ store0 = NoFile /\ runs = 2 /\ header_writes = 1
    /\ columns = <<"prompt", "source", "article_id">>
    /\ Len(Written) = 2
    /\ outcomes[1].branch = "upstream-error"
    /\ outcomes[2].branch = "success"

\* is p a prefix of q
IsPrefix(p, q) == Len(p) <= Len(q) /\ SubSeq(q, 1, Len(p)) = p

\* C19: no step of a batch run modifies, reorders or removes a data row that
\* is in the output store, whatever the store held before the first run; a
\* step that processes a row adds exactly one row at the end, every other
\* step leaves the rows as they are, and the header of an existing store is
\* never rewritten.
C19_AppendOnly ==
    [][ /\ IsPrefix(store.rows, store'.rows)
        /\ Len(store'.rows) = Len(store.rows) + (IF pc = "append" /\ pc' = "loop" THEN 1 ELSE 0)
        /\ store.exists => (store'.exists /\ store'.header = store.header) ]_vars

C19_Witness ==
    /\ store0.exists /\ Len(store0.rows) = 2 /\ runs = 2
    /\ Len(store.rows) = 4
    /\ IsPrefix(store0.rows, store.rows)
    /\ store.header = store0.header

\* C21: in every run the row of a call is appended before the next call is
\* issued: between two rows (where a kill leaves no row behind) the store
\* holds one appended row per call made, the last of them the row of the
\* last call; while a row is being processed exactly one call has no row yet,
\* and the row before it is already the last row of the store.
C21_AppendBeforeNextCall ==
    LET n == Len(calls)
        w == Len(Written)
    IN /\ pc \in {"loop", "done"} =>
             /\ w = Len(outcomes)
             /\ w >= n
             /\ \A k \in 1..n :
                   Field(Written[w - n + k], "article_id") = df[calls[k]]["article_id"]
       /\ pc = "append" =>
             /\ w = Len(outcomes) - 1
             /\ w >= n - 1
             /\ \A k \in 1..(n - 1) :
                   Field(Written[w - (n - 1) + k], "article_id") = df[calls[k]]["article_id"]

C21_Witness ==
    /\ pc = "append" /\ Len(calls) = 2 /\ index = 2
    /\ store0.exists /\ Len(store0.rows) = 2
    /\ Len(store.rows) = 3

\* C22 (as claimed): a run that finds the output store at startup resumes at
\* the number of data rows the store holds, also when the store cannot be
\* parsed; it never starts at row 0 on a store that holds data rows.
C22_ResumeAtRowCount ==
    (pc = "loop" /\ calls = <<>>) =>
        /\ processed_count = Len(store.rows)
        /\ Len(store.rows) > 0 => index > 1

----------------------------------------------------------------------------
(* Article fetcher: documents *)

\* Text of an element as the parser hands it over: a body with optional
\* surrounding whitespace.
ElemTexts == { [lead |-> " ", body |-> "alpha", trail |-> "\n"],
               [lead |-> "", body |-> "beta", trail |-> ""] }

\* element.text.strip()
StripText(t) == t.body

\* Leaf elements: headings and paragraphs, possibly carrying a class.
Leaves ==
    [tag : {"h1", "p"}, classes : {{}, {"footnote"}, {"article-meta"}},
     text : ElemTexts, kids : {<<>>}]

\* Containers with exactly k leaf children.
Containers(k) ==
    [tag : {"article", "div"}, classes : {{}, {"article-footer"}},
     text : {[lead |-> "", body |-> "", trail |-> ""]}, kids : [1..k -> Leaves]]

\* Top-level nodes made of exactly n elements.
NodesOfSize(n) == IF n = 1 THEN Leaves \cup Containers(0) ELSE Containers(n - 1)

\* Documents (sequences of top-level nodes) made of exactly n elements.
RECURSIVE DocsOfSize(_)
DocsOfSize(n) ==
    IF n = 0 THEN {<<>>}
    ELSE UNION { { <<node>> \o rest : node \in NodesOfSize(s), rest \in DocsOfSize(n - s) } :
                 s \in 1..n }

Docs == UNION { DocsOfSize(n) : n \in 0..MaxElems }

EXCLUSION_CLASSES == <<"article-meta", "article-footer">>

\* A variant that searches the top level only: find_all(class_=..., recursive=False)
DecomposeTopOnly(doc, class_name) ==
    SelectSeq(doc, LAMBDA e : class_name \notin e.classes)

\* for unwanted_element in soup.find_all(class_=class_name): unwanted_element.decompose()
Decompose(doc, class_name) ==
    LET keep(e) == class_name \notin e.classes
        top == SelectSeq(doc, keep)
    IN [i \in 1..Len(top) |-> [top[i] EXCEPT !.kids = SelectSeq(@, keep)]]

RECURSIVE DecomposeAll(_, _)
DecomposeAll(doc, class_names) ==
    IF class_names = <<>> THEN doc
    ELSE DecomposeAll(Decompose(doc, Head(class_names)), Tail(class_names))

\* The elements of a document in document order (an element before its children).
RECURSIVE Flatten(_)
Flatten(doc) ==
    IF doc = <<>> THEN <<>>
    ELSE <<Head(doc)>> \o Head(doc).kids \o Flatten(Tail(doc))

\* soup.find(tag): the first element with the tag in document order, or None
Find(doc, tag) ==
    LET hits == SelectSeq(Flatten(doc), LAMBDA e : e.tag = tag)
    IN IF hits = <<>> THEN None ELSE Head(hits)

\* element.find_all(tag, limit): the descendants with the tag, in document
\* order, at most `limit` of them (limit 0: all)
FindAll(elems, tag, limit) ==
    LET hits == SelectSeq(elems, LAMBDA e : e.tag = tag)
    IN IF limit = 0 \/ Len(hits) <= limit THEN hits ELSE SubSeq(hits, 1, limit)

FALLBACK_LIMIT == 10

\* if 'footnote' not in paragraph.get('class', []): content.append(paragraph.text.strip())
Paragraphs(ps) ==
    LET kept == SelectSeq(ps, LAMBDA e : "footnote" \notin e.classes)
    IN [i \in 1..Len(kept) |-> StripText(kept[i].text)]

NoTitle == "No Title Found"
NoContent == "No Content Found"

\* A variant without the title sentinel: a missing heading gives no title.
ExtractNoSentinel(soup0) ==
    LET soup == DecomposeAll(soup0, EXCLUSION_CLASSES)
        title_tag == Find(soup, "h1")
        body == Find(soup, "article")
        content == IF body # None
                   THEN Paragraphs(FindAll(body.kids, "p", 0))
                   ELSE Paragraphs(FindAll(Flatten(soup), "p", FALLBACK_LIMIT))
    IN [title |-> IF title_tag # None THEN StrVal(StripText(title_tag.text)) ELSE None,
        content |-> [joined |-> IF content = <<>> THEN <<NoContent>> ELSE content]]

\* A variant whose fallback scan drops the footnotes before it applies the
\* cap: the first FALLBACK_LIMIT paragraphs that are not footnotes
ExtractCapAfterFilter(soup0) ==
    LET soup == DecomposeAll(soup0, EXCLUSION_CLASSES)
        title_tag == Find(soup, "h1")
        title == IF title_tag # None THEN StripText(title_tag.text) ELSE NoTitle
        body == Find(soup, "article")
        scanned == Paragraphs(FindAll(Flatten(soup), "p", 0))
        content == IF body # None
                   THEN Paragraphs(FindAll(body.kids, "p", 0))
                   ELSE IF Len(scanned) <= FALLBACK_LIMIT THEN scanned
                   ELSE SubSeq(scanned, 1, FALLBACK_LIMIT)
    IN [title |-> StrVal(title),
        content |-> [joined |-> IF content = <<>> THEN <<NoContent>> ELSE content]]

\* A variant that falls back whenever the primary tier found no text:
\* `if not content:` in place of `if not body:`
ExtractFallbackWhenEmpty(soup0) ==
    LET soup == DecomposeAll(soup0, EXCLUSION_CLASSES)
        title_tag == Find(soup, "h1")
        title == IF title_tag # None THEN StripText(title_tag.text) ELSE NoTitle
        body == Find(soup, "article")
        primary == IF body # None THEN Paragraphs(FindAll(body.kids, "p", 0)) ELSE <<>>
        content == IF primary # <<>> THEN primary
                   ELSE Paragraphs(FindAll(Flatten(soup), "p", FALLBACK_LIMIT))
    IN [title |-> StrVal(title),
        content |-> [joined |-> IF content = <<>> THEN <<NoContent>> ELSE content]]

\* Lines 94-128 of _get_article_details: title and body of a parsed document.
Extract(soup0) ==
    LET soup == DecomposeAll(soup0, EXCLUSION_CLASSES)
        title_tag == Find(soup, "h1")
        title == IF title_tag # None THEN StripText(title_tag.text) ELSE NoTitle
        body == Find(soup, "article")
        content == IF body # None
                   THEN Paragraphs(FindAll(body.kids, "p", 0))
                   ELSE Paragraphs(FindAll(Flatten(soup), "p", FALLBACK_LIMIT))
    IN [title |-> StrVal(title),
        content |-> [joined |-> IF content = <<>> THEN <<NoContent>> ELSE content]]

\* the texts of the paragraphs of a long document, in document order
ParaTexts == <<"p01", "p02", "p03", "p04", "p05", "p06", "p07", "p08", "p09", "p10",
               "p11", "p12", "p13", "p14">>

\* Documents without article container and heading: FALLBACK_LIMIT up to
\* FALLBACK_LIMIT + MaxExtra paragraphs, each footnote-tagged or not.
LongDocs ==
    UNION { { [i \in 1..n |-> [tag |-> "p", classes |-> cls[i], kids |-> <<>>,
                               text |-> [lead |-> " ", body |-> ParaTexts[i], trail |-> "\n"]]] :
              cls \in [1..n -> {{}, {"footnote"}}] } :
            n \in FALLBACK_LIMIT..(FALLBACK_LIMIT + MaxExtra) }

Failed == [title |-> None, content |-> None]

\* What requests.get and the parser can do for one url.
FetchTimeout == [kind |-> "timeout"]
FetchError == [kind |-> "error"]
Response(status, detected, parse_raises, doc) ==
    [kind |-> "response", status_code |-> status, detected_encoding |-> detected,
     parse_raises |-> parse_raises, doc |-> doc]

StatusCodes == {200, 404}

FetchReplies ==
    {FetchTimeout, FetchError}
    \cup { Response(st, None, FALSE, <<>>) : st \in StatusCodes \ {200} }
    \cup { Response(200, enc, TRUE, <<>>) : enc \in {None, StrVal("ascii")} }
    \cup { Response(200, enc, FALSE, doc) : enc \in {None, StrVal("ascii")}, doc \in Docs }
    \cup { Response(200, None, FALSE, doc) : doc \in LongDocs }

\* response.encoding = detected_encoding if detected_encoding else 'utf-8'
Encoding(r) == IF r.detected_encoding # None THEN r.detected_encoding ELSE StrVal("utf-8")

\* The body of the try statement of _get_article_details: what it returns,
\* or the exception that leaves it. The fetch raises on a timeout or another
\* transport error; the parser may reject the decoded text with an exception.
TryBody(r) ==
    IF r.kind = "timeout" THEN [raises |-> "Timeout"]
    ELSE IF r.kind = "error" THEN [raises |-> "ConnectionError"]
    ELSE IF r.status_code # 200 THEN [returns |-> Failed]
    ELSE IF r.parse_raises THEN [raises |-> "ParserRejectedMarkup"]
    ELSE [returns |-> Extract(r.doc)]

\* A variant with the Timeout handler only: other exceptions leave the call.
get_article_details_timeout_only(r) ==
    LET t == TryBody(r)
    IN IF "returns" \in DOMAIN t THEN t.returns
       ELSE IF t.raises = "Timeout" THEN Failed
       ELSE [raised |-> t.raises]

\* _get_article_details: the try statement with its two handlers, one for
\* Timeout and one for every other Exception; both return (None, None).
get_article_details(r) ==
    LET t == TryBody(r)
    IN IF "returns" \in DOMAIN t THEN t.returns
       ELSE IF t.raises = "Timeout" THEN Failed
       ELSE Failed

\* One call of _get_article_details.
DetailInit ==
    /\ reply \in FetchReplies
    /\ details = None

GetArticleDetails ==
    /\ details = None
    /\ details' = get_article_details(reply)
    /\ UNCHANGED <<reply, batchVars, fetchVars, mainVars, setupVars>>

----------------------------------------------------------------------------
(* Article fetcher: fetch_article_info *)

\* a url value of the table; a missing url is None (NaN)
Url(k) == [url |-> k]

UrlValues == {None} \cup { Url(k) : k \in 1..NumUrls }

\* the table with the given url column; idx is the row's index label
Table(urls) == [i \in 1..Len(urls) |-> [idx |-> i - 1, url |-> urls[i]]]

\* a DataFrame object holding the rows
DataFrame(rows) == [rows |-> rows]

Tables == UNION { { Table(urls) : urls \in [1..n -> UrlValues] } : n \in 0..MaxFetchRows }

\* data.dropna(subset=['url']): the rows with a url, in order
DropNa(rows) == SelectSeq(rows, LAMBDA r : r.url # None)

\* the distinct values of a sequence in order of first appearance
RECURSIVE Uniques(_)
Uniques(seq) ==
    IF seq = <<>> THEN <<>>
    ELSE LET init == Uniques(SubSeq(seq, 1, Len(seq) - 1))
             last == seq[Len(seq)]
         IN IF Contains(init, last) THEN init ELSE Append(init, last)

IndexOf(seq, v) == CHOOSE i \in 1..Len(seq) : seq[i] = v

\* A variant numbering the values in sorted order: factorize(sort=True)
FactorizeSorted(values) ==
    [i \in 1..Len(values) |->
       IF values[i] = None THEN -1
       ELSE Cardinality({ k \in 1..NumUrls :
                            /\ k < values[i].url
                            /\ \E j \in 1..Len(values) : values[j] = Url(k) })]

\* Series.factorize()[0]: codes 0, 1, ... in order of first appearance; a
\* missing value gets -1
Factorize(values) ==
    LET uniques == Uniques(SelectSeq(values, LAMBDA v : v # None))
    IN [i \in 1..Len(values) |->
          IF values[i] = None THEN -1 ELSE IndexOf(uniques, values[i]) - 1]

\* sort_values(by='article_id'): insertion of a pair into a sorted sequence
RECURSIVE SortById(_)
SortById(pairs) ==
    IF pairs = <<>> THEN <<>>
    ELSE LET rest == SortById(SubSeq(pairs, 1, Len(pairs) - 1))
             last == pairs[Len(pairs)]
             before == SelectSeq(rest, LAMBDA q : q.article_id <= last.article_id)
             after == SelectSeq(rest, LAMBDA q : q.article_id > last.article_id)
         IN before \o <<last>> \o after

\* A variant without drop_duplicates: one entry per row.
UniqueArticlesPerRow(rows) ==
    SortById([i \in 1..Len(rows) |->
                [article_id |-> rows[i].article_id, url |-> rows[i].url]])

\* data[['article_id', 'url']].drop_duplicates().sort_values(by='article_id')
UniqueArticles(rows) ==
    SortById(Uniques([i \in 1..Len(rows) |->
                        [article_id |-> rows[i].article_id, url |-> rows[i].url]]))

\* A variant without the dropna: the rows without url stay in the working
\* table with the code factorize gives a missing value.
PrepareKeepsNull(table) ==
    LET codes == Factorize([i \in 1..Len(table) |-> table[i].url])
    IN [i \in 1..Len(table) |->
          [idx |-> table[i].idx, url |-> table[i].url, article_id |-> codes[i]]]

\* lines 152-161: the working table with its article_id column
Prepare(table) ==
    LET kept == DropNa(table)
        codes == Factorize([i \in 1..Len(kept) |-> kept[i].url])
    IN [i \in 1..Len(kept) |->
          [idx |-> kept[i].idx, url |-> kept[i].url, article_id |-> codes[i]]]

\* Series.map(dict): the value of the key, NaN where the key is missing
MapGet(m, k, field) == IF k \in DOMAIN m THEN m[k][field] ELSE None

\* lines 181-185: the title and content columns
Merge(rows, mappings) ==
    [i \in 1..Len(rows) |->
       [idx |-> rows[i].idx, url |-> rows[i].url, article_id |-> rows[i].article_id,
        article_title |-> MapGet(mappings, rows[i].article_id, "title"),
        article_content |-> MapGet(mappings, rows[i].article_id, "content")]]

\* What the scraping loop's calls meet: a timeout or one of two pages.
PageA == <<[tag |-> "h1", classes |-> {}, kids |-> <<>>,
            text |-> [lead |-> " ", body |-> "alpha", trail |-> "\n"]]>>
PageB == <<[tag |-> "p", classes |-> {}, kids |-> <<>>,
            text |-> [lead |-> "", body |-> "beta", trail |-> ""]]>>

ScrapeReplies ==
    {FetchTimeout, Response(200, None, FALSE, PageA), Response(200, None, FALSE, PageB)}

\* the original dataset: its url column is 'Answer.url', and it has columns
\* that clean_data does not select
RawTable(urls) ==
    [i \in 1..Len(urls) |->
        [c \in {"idx", "Answer.url", "Other.Col"} |->
            IF c = "idx" THEN i - 1 ELSE IF c = "Answer.url" THEN urls[i] ELSE "ignore"]]

\* data[[...]] followed by rename(columns=rename_map): the selected columns
\* under their new names
SelectAndRename(rows) ==
    [i \in 1..Len(rows) |-> [idx |-> rows[i]["idx"], url |-> rows[i]["Answer.url"]]]

NotFoundMessage == "Error: Input file not found."
CompleteMessage == "Data cleaning complete."

\* A variant without the try statement around the read: a missing file
\* raises out of clean_data.
clean_data_unguarded(file, data) ==
    IF file = None
    THEN [data |-> data, export |-> None, printed |-> "Starting data cleaning",
          raised |-> StrVal("FileNotFoundError")]
    ELSE LET clean == DataFrame(SelectAndRename(file.rows))
         IN [data |-> clean, export |-> clean, printed |-> CompleteMessage, raised |-> None]

\* clean_data: self.data afterwards, the table exported to clean_data_path
\* (None: no export), the last message printed and the exception raised
clean_data(file, data) ==
    IF file = None
    THEN [data |-> data, export |-> None, printed |-> NotFoundMessage, raised |-> None]
    ELSE LET clean == DataFrame(SelectAndRename(file.rows))
         IN [data |-> clean, export |-> clean, printed |-> CompleteMessage, raised |-> None]

InputFiles == {None, DataFrame(RawTable(<<Url(1), None, Url(1)>>))}

FetchInit ==
    /\ input_file \in InputFiles
    /\ cruns = 0
    /\ creport = None
    /\ \/ fdata \in { DataFrame(t) : t \in Tables } /\ clean_file = None
       \/ fdata = None /\ clean_file \in {None, DataFrame(Table(<<Url(1), None, Url(1)>>))}
    /\ fpc = "idle"
    /\ work = <<>>
    /\ unique_articles = <<>>
    /\ fpos = 0
    /\ id_mappings = <<>>
    /\ fetched = <<>>
    /\ input0 = None
    /\ returned = None
    /\ exported = None
    /\ fruns = 0

\* fetch_article_info, lines 142-165: load the data if need be, drop the rows
\* without url, assign the ids and list the unique articles.
FetchStart ==
    /\ fpc = "idle"
    /\ fruns < MaxFetchRuns
    /\ fruns' = fruns + 1
    /\ fetched' = <<>>
    /\ IF fdata = None /\ clean_file = None
       THEN /\ returned' = None
            /\ input0' = None
            /\ UNCHANGED <<fdata, fpc, work, unique_articles, fpos, id_mappings>>
       ELSE LET loaded == IF fdata = None THEN clean_file ELSE fdata
                data == Prepare(loaded.rows)
            IN /\ fdata' = loaded
               /\ input0' = loaded
               /\ work' = data
               /\ unique_articles' = UniqueArticles(data)
               /\ id_mappings' = <<>>
               /\ fpos' = 1
               /\ fpc' = "scrape"
               /\ UNCHANGED returned
    /\ UNCHANGED <<clean_file, exported, cleanVars, batchVars, detailVars, mainVars, setupVars>>

\* One iteration of the scraping loop, lines 168-178.
FetchOne ==
    /\ fpc = "scrape"
    /\ fpos <= Len(unique_articles)
    /\ \E r \in ScrapeReplies :
          LET row == unique_articles[fpos]
              result == get_article_details(r)
          IN /\ fetched' = Append(fetched, row.url)
             /\ id_mappings' =
                   [k \in DOMAIN id_mappings \cup {row.article_id} |->
                      IF k = row.article_id THEN result ELSE id_mappings[k]]
    /\ fpos' = fpos + 1
    /\ UNCHANGED <<fdata, clean_file, fpc, work, unique_articles, input0, returned,
                   exported, fruns, cleanVars, batchVars, detailVars, mainVars, setupVars>>

\* After the loop, lines 181-191: merge, store, export and return.
FetchMerge ==
    /\ fpc = "scrape"
    /\ fpos > Len(unique_articles)
    /\ LET data == Merge(work, id_mappings)
       IN /\ fdata' = DataFrame(data)
          /\ exported' = DataFrame(data)
          /\ returned' = DataFrame(data)
    /\ fpc' = "idle"
    /\ UNCHANGED <<clean_file, work, unique_articles, fpos, id_mappings, fetched,
                   input0, fruns, cleanVars, batchVars, detailVars, mainVars, setupVars>>

\* One call of clean_data, between two calls of fetch_article_info.
CleanData ==
    /\ fpc = "idle"
    /\ cruns < MaxCleanRuns
    /\ cruns' = cruns + 1
    /\ LET c == clean_data(input_file, fdata)
       IN /\ fdata' = c.data
          /\ clean_file' = IF c.export # None THEN c.export ELSE clean_file
          /\ creport' = [printed |-> c.printed, raised |-> c.raised]
    /\ UNCHANGED <<input_file, fpc, work, unique_articles, fpos, id_mappings, fetched,
                   input0, returned, exported, fruns, batchVars, detailVars, mainVars, setupVars>>

FetchNext == FetchStart \/ FetchOne \/ FetchMerge \/ CleanData

----------------------------------------------------------------------------
(* Article fetcher: properties *)

\* the distinct non-null urls of a table
DistinctUrls(rows) == { rows[i].url : i \in 1..Len(rows) } \ {None}

\* C4: one call of fetch_article_info on rows with K distinct non-null urls
\* calls _get_article_details exactly K times, once per distinct url.
C4_OncePerUrl ==
    input0 # None =>
        /\ \A i, j \in 1..Len(fetched) : fetched[i] = fetched[j] => i = j
        /\ \A i \in 1..Len(fetched) : fetched[i] \in DistinctUrls(input0.rows)
        /\ fpc = "idle" => Len(fetched) = Cardinality(DistinctUrls(input0.rows))

C4_Witness ==
    /\ fpc = "idle" /\ input0 # None
    /\ Len(input0.rows) = 3
    /\ Cardinality(DistinctUrls(input0.rows)) = 2
    /\ \A i \in 1..3 : input0.rows[i].url # None
    /\ Len(fetched) = 2

\* the result the scraping loop obtained for a url
ResultFor(url) ==
    LET pair == CHOOSE q \in { unique_articles[k] : k \in 1..Len(unique_articles) } :
                    q.url = url
    IN id_mappings[pair.article_id]

\* C5 (as claimed): the table fetch_article_info returns has the length and
\* row order of its input; a row with a url carries the title and content
\* obtained for its url, a row without url is present with neither.
C5_MergeCompleteness ==
    (fpc = "idle" /\ input0 # None) =>
        /\ Len(returned.rows) = Len(input0.rows)
        /\ \A i \in 1..Len(input0.rows) :
              /\ returned.rows[i].idx = input0.rows[i].idx
              /\ returned.rows[i].url = input0.rows[i].url
              /\ IF input0.rows[i].url = None
                 THEN /\ returned.rows[i].article_title = None
                      /\ returned.rows[i].article_content = None
                 ELSE /\ returned.rows[i].article_title = ResultFor(input0.rows[i].url).title
                      /\ returned.rows[i].article_content = ResultFor(input0.rows[i].url).content

\* the index of the first row with the url of row i
FirstAt(rows, i) ==
    CHOOSE j \in 1..i :
        /\ rows[j].url = rows[i].url
        /\ \A k \in 1..(j - 1) : rows[k].url # rows[i].url

\* C6: the rows with a url, in input order, get article ids such that two
\* rows share an id exactly when they share the url, the ids being 0..K-1 in
\* order of first appearance; assigning again on the same rows gives the same ids.
C6_IdentityAssignment ==
    (input0 # None) =>
        LET keyed == SelectSeq(input0.rows, LAMBDA r : r.url # None) IN
        /\ Len(work) = Len(keyed)
        /\ \A i \in 1..Len(work) :
              /\ work[i].idx = keyed[i].idx
              /\ work[i].url = keyed[i].url
              /\ work[i].article_id =
                    Cardinality({ work[k].url : k \in 1..(FirstAt(work, i) - 1) })
              /\ "article_id" \in DOMAIN keyed[i] => work[i].article_id = keyed[i].article_id
        /\ \A i, j \in 1..Len(work) :
              (work[i].article_id = work[j].article_id) <=> (work[i].url = work[j].url)

C6_Witness ==
    /\ fruns = 2 /\ fpc = "idle" /\ input0 # None
    /\ Len(work) = 3
    /\ work[1].url = Url(2) /\ work[2].url = Url(1) /\ work[3].url = Url(2)
    /\ work[3].article_id = 0 /\ work[2].article_id = 1

\* C7: when the fetch times out, raises a transport error or returns a
\* status other than success, _get_article_details returns (None, None) and
\* raises nothing.
C7_FailureIsData ==
    (details # None /\ (reply.kind \in {"timeout", "error"} \/ reply.status_code # 200))
        => details = Failed

C7_Witness ==
    /\ details = Failed
    /\ reply.kind = "response"
    /\ reply.status_code = 404

\* C8 (as claimed): whenever the fetch returns a success status, title and
\* body are both present, also when the content cannot be parsed.
C8_SuccessNeverAbsent ==
    (details # None /\ reply.kind = "response" /\ reply.status_code = 200)
        => (details.title # None /\ details.content # None)

HasTag(doc, tag) == \E i \in 1..Len(Flatten(doc)) : Flatten(doc)[i].tag = tag

\* C8 (amended): whenever the fetch returns a success status and the parser
\* raises nothing, title and body are both present, the title being the
\* sentinel when the document has no heading and the body the sentinel when it
\* has no paragraph; when the parser raises, the result is (None, None).
C8_SuccessPresentUnlessParserRaises ==
    (details # None /\ reply.kind = "response" /\ reply.status_code = 200) =>
        IF reply.parse_raises
        THEN details = Failed
        ELSE /\ details.title # None
             /\ details.content # None
             /\ ~HasTag(reply.doc, "h1") => details.title = StrVal(NoTitle)
             /\ ~HasTag(reply.doc, "p") => details.content = [joined |-> <<NoContent>>]

C8_Witness ==
    /\ details # None
    /\ reply.kind = "response" /\ reply.status_code = 200 /\ ~reply.parse_raises
    /\ Len(reply.doc) = 2
    /\ ~HasTag(reply.doc, "h1")
    /\ details = [title |-> StrVal(NoTitle), content |-> [joined |-> <<NoContent>>]]

\* a call that got a 200 response whose text the parser accepted
Parsed == reply.kind = "response" /\ reply.status_code = 200 /\ ~reply.parse_raises

\* an element tagged with one of the excluded classes
Excluded(e) == e.classes \cap {"article-meta", "article-footer"} # {}

ExcludedText == [lead |-> "", body |-> "EXCLUDED", trail |-> ""]

\* the document with the text of every element of an excluded region (the
\* tagged element and all that is nested in it) replaced by a marker text
MarkExcluded(doc) ==
    [i \in 1..Len(doc) |->
        IF Excluded(doc[i])
        THEN [doc[i] EXCEPT !.text = ExcludedText,
                            !.kids = [k \in 1..Len(@) |-> [@[k] EXCEPT !.text = ExcludedText]]]
        ELSE [doc[i] EXCEPT !.kids = [k \in 1..Len(@) |->
                                         IF Excluded(@[k]) THEN [@[k] EXCEPT !.text = ExcludedText]
                                         ELSE @[k]]]]

\* C15: for every fetched and parsed document, the text of elements tagged
\* article-meta or article-footer, and of headings and paragraphs nested in
\* them or tagged so inside the article container, reaches neither the title
\* nor the body: with that text replaced by a marker the call returns the
\* same title and body, and the marker is in neither.
C15_ExcludedNeverContribute ==
    (Parsed /\ details # None) =>
        LET marked == get_article_details([reply EXCEPT !.doc = MarkExcluded(@)])
        IN /\ marked = details
           /\ marked.title # StrVal("EXCLUDED")
           /\ \A i \in 1..Len(marked.content.joined) : marked.content.joined[i] # "EXCLUDED"

C15_Witness ==
    /\ Parsed /\ details # None
    /\ Len(reply.doc) = 2
    /\ reply.doc[1].tag = "article" /\ reply.doc[1].classes = {} /\ Len(reply.doc[1].kids) = 1
    /\ reply.doc[1].kids[1].tag = "p" /\ reply.doc[1].kids[1].classes = {"article-meta"}
    /\ reply.doc[2].tag = "h1" /\ reply.doc[2].classes = {"article-meta"}
    /\ details = [title |-> StrVal(NoTitle), content |-> [joined |-> <<NoContent>>]]

\* C16: with the excluded regions removed, when the document has an article
\* container the body is the stripped texts of the non-footnote paragraphs
\* inside the first one, in document order, and the sentinel if there are
\* none, also when paragraphs exist elsewhere; the scan over the paragraphs
\* of the whole document decides the body only when there is no article
\* container.
C16_BodyTier ==
    (Parsed /\ details # None) =>
        LET soup == DecomposeAll(reply.doc, EXCLUSION_CLASSES)
            articles == SelectSeq(soup, LAMBDA e : e.tag = "article")
            wanted(e) == e.tag = "p" /\ "footnote" \notin e.classes
            inside == IF articles = <<>> THEN <<>> ELSE SelectSeq(articles[1].kids, wanted)
            anywhere == SelectSeq(Flatten(soup), wanted)
            body == details.content.joined
        IN /\ (articles # <<>> /\ inside # <<>>) =>
                 body = [i \in 1..Len(inside) |-> inside[i].text.body]
           /\ (articles # <<>> /\ inside = <<>>) => body = <<NoContent>>
           /\ (articles = <<>> /\ Len(Flatten(soup)) <= 10) =>
                 body = IF anywhere = <<>> THEN <<NoContent>>
                        ELSE [i \in 1..Len(anywhere) |-> anywhere[i].text.body]

C16_Witness ==
    /\ Parsed /\ details # None
    /\ Len(reply.doc) = 2
    /\ reply.doc[1].tag = "article" /\ reply.doc[1].classes = {} /\ Len(reply.doc[1].kids) = 1
    /\ reply.doc[1].kids[1].tag = "p" /\ reply.doc[1].kids[1].classes = {"footnote"}
    /\ reply.doc[2].tag = "p" /\ reply.doc[2].classes = {}
    /\ details.content.joined = <<NoContent>>

\* C20: a clean_data call that finds no input file reports the error and
\* returns without raising, leaves self.data as it was (unset if it was unset)
\* and exports nothing; a fetch_article_info call that has no data and finds
\* no clean-data file returns None without a fetch or an export.
C20_MissingInputIsHarmless ==
    [][ /\ (cruns' = cruns + 1 /\ input_file = None) =>
              /\ creport' = [printed |-> NotFoundMessage, raised |-> None]
              /\ fdata' = fdata
              /\ clean_file' = clean_file
              /\ exported' = exported
              /\ fpc' = "idle"
        /\ (fruns' = fruns + 1 /\ fdata = None /\ clean_file = None) =>
              /\ returned' = None
              /\ fetched' = <<>>
              /\ fdata' = None
              /\ clean_file' = None
              /\ exported' = exported
              /\ fpc' = "idle" ]_vars

C20_Witness ==
    /\ input_file = None /\ cruns = 1 /\ fruns = 1
    /\ creport = [printed |-> NotFoundMessage, raised |-> None]
    /\ fdata = None /\ clean_file = None
    /\ returned = None /\ exported = None /\ fetched = <<>> /\ fpc = "idle"

----------------------------------------------------------------------------
(* Batch runner: a run against an endpoint that may never answer *)

\* As BatchInit, with an endpoint that for some rows accepts the request and
\* never answers.
LiveInit ==
    /\ columns \in InputLayouts
    /\ \E n \in 0..MaxRows :
          /\ df = InputTable(columns, n)
          /\ chat \in [1..n -> Replies \cup {ChatHangs}]
    /\ store \in InitialStores
    /\ store0 = store
    /\ BatchIdle

\* Runs that nothing kills.
LiveNext == StartRun \/ Infer \/ AppendRow \/ Finish

\* C17 (as claimed, batch phase): the inference call is bounded by a timeout,
\* so also with an endpoint that never answers every row the loop has
\* started gets its outcome recorded and the run reaches its terminal state.
C17_RunProceeds ==
    /\ \A i \in 1..MaxRows :
          (pc = "loop" /\ index = i /\ i <= Len(df)) ~> (index > i)
    /\ (pc = "loop") ~> (pc = "done")

----------------------------------------------------------------------------
(* Entry point: main *)

\* Constants.PROMPT_FILE_MAP: file type -> file name
PROMPT_FILE_MAP == [t \in 1..NumJobs |-> [type |-> t, file_name |-> t]]

\* choices of --file-type
FileTypeChoices == {StrVal("all")} \cup {IntVal(t) : t \in 1..NumJobs}

\* What can be at an input path: nothing, a file with a header and no rows,
\* a file without a 'prompt' column, a file with prompts.
JobInputs ==
    { None,
      [columns |-> <<"article_id", "prompt">>, rows |-> <<>>],
      [columns |-> <<"article_id">>, rows |-> InputTable(<<"article_id">>, 1)],
      [columns |-> <<"article_id", "prompt">>,
       rows |-> InputTable(<<"article_id", "prompt">>, 1)] }

\* parse_args: the namespace has the three options the parser defines
ParseArgs(file_type, model) ==
    [file_type |-> file_type, model |-> model, output_dir |-> "../results/"]

\* _process_single_file run to its end on an input and the job's output file
ProcessSingleFile(input, file) ==
    IF load_data(input) = None THEN file
    ELSE LET cols == Remove(input.columns, "prompt") \o LLM_RESULT_COLUMNS
             init == initialize_output_file(file, cols)
             todo == SubSeq(input.rows, FirstRow(init.count), Len(input.rows))
         IN [init.file EXCEPT !.rows =
                @ \o [i \in 1..Len(todo) |->
                        [k \in 1..Len(cols) |->
                            IF cols[k] \in DOMAIN todo[i] THEN todo[i][cols[k]]
                            ELSE StrVal(cols[k])]]]

MainInit ==
    /\ args = None
    /\ files_to_run = <<>>
    /\ job_files \in [1..NumJobs -> JobInputs]
    /\ job_stores = [t \in 1..NumJobs |-> NoFile]
    /\ mpos = 0
    /\ mpc = "start"
    /\ mraised = None

\* main up to its loop: parse the arguments, select the files
MainParse ==
    /\ mpc = "start"
    /\ \E ft \in FileTypeChoices, model \in {MODEL_NAME, "mistral"} :
          /\ args' = ParseArgs(ft, model)
          /\ files_to_run' = IF ft = StrVal("all")
                             THEN [t \in 1..NumJobs |-> PROMPT_FILE_MAP[t].file_name]
                             ELSE <<PROMPT_FILE_MAP[ft.int].file_name>>
    /\ mpos' = 1
    /\ mpc' = "loop"
    /\ UNCHANGED <<job_files, job_stores, mraised>>
    /\ UNCHANGED <<batchVars, fetchVars, detailVars, setupVars>>

\* One round of main's loop: the end of the list ends main; otherwise the
\* input path is built from args.version, an attribute the namespace must
\* have, the file is skipped if it is not there and processed otherwise.
MainLoop ==
    /\ mpc = "loop"
    /\ IF mpos > Len(files_to_run)
       THEN /\ mpc' = "done"
            /\ UNCHANGED <<job_stores, mpos, mraised>>
       ELSE IF "version" \notin DOMAIN args
       THEN /\ mpc' = "raised"
            /\ mraised' = StrVal("AttributeError")
            /\ UNCHANGED <<job_stores, mpos>>
       ELSE LET file_name == files_to_run[mpos] IN
            /\ job_stores' = IF job_files[file_name] = None THEN job_stores
                             ELSE [job_stores EXCEPT ![file_name] =
                                     ProcessSingleFile(job_files[file_name], @)]
            /\ mpos' = mpos + 1
            /\ UNCHANGED <<mpc, mraised>>
    /\ UNCHANGED <<args, files_to_run, job_files>>
    /\ UNCHANGED <<batchVars, fetchVars, detailVars, setupVars>>

MainNext == MainParse \/ MainLoop

\* C14 (as claimed): when main runs the configured jobs, no exception leaves
\* it, and when it has ended every job whose input file is absent, empty or
\* without a 'prompt' column has no output store, and every other selected
\* job has been processed: its store holds a row for each of its input rows.
C14_JobFailureSkipsOnlyThatJob ==
    /\ mraised = None
    /\ mpc \in {"done", "raised"} =>
          \A k \in 1..Len(files_to_run) :
              LET job == files_to_run[k] IN
              IF load_data(job_files[job]) = None
              THEN job_stores[job] = NoFile
              ELSE /\ job_stores[job].exists
                   /\ Len(job_stores[job].rows) = Len(job_files[job].rows)

\* the paragraphs of a parsed document without article container, excluded
\* regions removed, in document order
ScanParagraphs ==
    SelectSeq(Flatten(DecomposeAll(reply.doc, EXCLUSION_CLASSES)), LAMBDA e : e.tag = "p")

NoArticle ==
    \A i \in 1..Len(reply.doc) :
        reply.doc[i].tag = "article" => Excluded(reply.doc[i])

NotFootnote(e) == "footnote" \notin e.classes

\* the body made of the non-footnote paragraphs among the first 10
BodyOfFirstTen ==
    LET first == IF Len(ScanParagraphs) <= 10 THEN ScanParagraphs
                 ELSE SubSeq(ScanParagraphs, 1, 10)
        kept == SelectSeq(first, NotFootnote)
    IN IF kept = <<>> THEN <<NoContent>> ELSE [i \in 1..Len(kept) |-> kept[i].text.body]

\* C23 (as claimed): without an article container the body is built from the
\* first 10 paragraphs with the footnotes excluded; it holds exactly 10
\* paragraphs whenever the document holds at least 10 non-footnote
\* paragraphs, and never more than 10.
C23_TenWheneverTenExist ==
    (Parsed /\ details # None /\ NoArticle) =>
        /\ details.content.joined = BodyOfFirstTen
        /\ Len(details.content.joined) <= 10
        /\ Len(SelectSeq(ScanParagraphs, NotFootnote)) >= 10 =>
              Len(details.content.joined) = 10

\* C23 (amended): without an article container the body is the non-footnote
\* paragraphs among the first 10 paragraphs of the document, in document
\* order (the sentinel if there are none); it never holds more than 10
\* paragraphs, and it holds exactly 10 exactly when the first 10 paragraphs
\* exist and none of them is a footnote.
C23_FallbackCap ==
    (Parsed /\ details # None /\ NoArticle) =>
        /\ details.content.joined = BodyOfFirstTen
        /\ Len(details.content.joined) <= 10
        /\ Len(details.content.joined) = 10 <=>
              /\ Len(ScanParagraphs) >= 10
              /\ \A i \in 1..10 : NotFootnote(ScanParagraphs[i])

C23_Witness ==
    /\ Parsed /\ details # None /\ NoArticle
    /\ Len(ScanParagraphs) = 11
    /\ ~NotFootnote(ScanParagraphs[1])
    /\ \A i \in 2..11 : NotFootnote(ScanParagraphs[i])
    /\ Len(details.content.joined) = 9
    /\ details.content.joined[9] = "p10"

\* C24: a row without url is never given an identity: the working table of
\* a fetch_article_info call holds the rows with a url only, in input order,
\* each with an id >= 0; no call of _get_article_details gets a null url;
\* the ids of the rows with a url and the number of calls are those of the
\* same table without its null-url rows.
C24_NullKeyExclusion ==
    input0 # None =>
        LET keyed == SelectSeq(input0.rows, LAMBDA r : r.url # None)
            alone == Prepare(keyed)
        IN /\ Len(work) = Len(keyed)
           /\ \A i \in 1..Len(work) :
                 /\ work[i].url # None
                 /\ work[i].idx = keyed[i].idx
                 /\ work[i].article_id >= 0
                 /\ work[i].article_id = alone[i].article_id
           /\ \A k \in 1..Len(fetched) : fetched[k] # None
           /\ \A k \in 1..Len(unique_articles) : unique_articles[k].url # None
           /\ fpc = "idle" =>
                 /\ Len(fetched) = Cardinality({ keyed[i].url : i \in 1..Len(keyed) })
                 /\ returned # None
                 /\ \A i \in 1..Len(returned.rows) : returned.rows[i].url # None

C24_Witness ==
    /\ fpc = "idle" /\ input0 # None
    /\ Len(input0.rows) = 3
    /\ input0.rows[1].url = Url(2) /\ input0.rows[2].url = None /\ input0.rows[3].url = Url(1)
    /\ Len(work) = 2 /\ work[1].article_id = 0 /\ work[2].article_id = 1
    /\ Len(fetched) = 2

----------------------------------------------------------------------------
(* Batch runner: output paths of two jobs *)

\* Names are sequences of words; writing a name joins its words with '_'.
\* An input file path: the directories, the words of the file's name, the
\* extension.
InputPaths ==
    [dir : {<<"prompts", "v1">>, <<"prompts", "v2">>},
     stem : {<<"prompt", "a">>, <<"prompt", "a", "b">>},
     ext : {".csv"}]

\* A model name: segments separated by '/', each a sequence of words.
ModelNames == { <<<<"x">>>>, <<<<"org">>, <<"x">>>>, <<<<"b", "x">>>> }

Jobs == [input_file_path : InputPaths, model_name : ModelNames]

\* os.path.basename: the path without its directories
Basename(path) == [stem |-> path.stem, ext |-> path.ext]

\* .replace('.csv', ''): the name without the extension
ReplaceCsv(name) == IF name.ext = ".csv" THEN name.stem ELSE name.stem \o <<name.ext>>

\* model_name.split('/')[-1]
LastSegment(model_name) == model_name[Len(model_name)]

\* _setup_output_file: f"llm_output_{input_filename}_{model}.csv" in output_dir
setup_output_file(output_dir, input_file_path, model_name) ==
    LET input_filename == ReplaceCsv(Basename(input_file_path))
        output_filename == <<"llm", "output">> \o input_filename \o LastSegment(model_name)
    IN [dir |-> output_dir, stem |-> output_filename, ext |-> ".csv"]

DEFAULT_OUTPUT_DIR == <<"results">>

SetupInit ==
    /\ job_a \in Jobs
    /\ job_b \in Jobs
    /\ path_a = None
    /\ path_b = None
    /\ out_file = None
    /\ resume_b = 0
    /\ spc = "start"

\* the first job sets up its output path, creates the file and runs to its
\* end over an input of n rows
RunFirstJob ==
    /\ spc = "start"
    /\ \E n \in 1..MaxRows :
          LET path == setup_output_file(DEFAULT_OUTPUT_DIR, job_a.input_file_path,
                                        job_a.model_name)
              cols == <<"article_id">> \o LLM_RESULT_COLUMNS
              init == initialize_output_file(NoFile, cols)
          IN /\ path_a' = path
             /\ out_file' = [path |-> path,
                             file |-> [init.file EXCEPT !.rows =
                                          [i \in 1..n |-> ForeignRow(cols)]]]
    /\ spc' = "first_done"
    /\ UNCHANGED <<job_a, job_b, path_b, resume_b>>
    /\ UNCHANGED <<batchVars, fetchVars, detailVars, mainVars>>

\* the second job sets up its output path and initialises its output file:
\* the file at that path, if there is one, gives its processed_count
StartSecondJob ==
    /\ spc = "first_done"
    /\ LET path == setup_output_file(DEFAULT_OUTPUT_DIR, job_b.input_file_path,
                                     job_b.model_name)
           cols == <<"article_id">> \o LLM_RESULT_COLUMNS
           found == IF out_file.path = path THEN out_file.file ELSE NoFile
       IN /\ path_b' = path
          /\ resume_b' = initialize_output_file(found, cols).count
    /\ spc' = "second_started"
    /\ UNCHANGED <<job_a, job_b, path_a, out_file>>
    /\ UNCHANGED <<batchVars, fetchVars, detailVars, mainVars>>

SetupNext == RunFirstJob \/ StartSecondJob

\* C25 (as claimed): two jobs that differ in input file path or in model
\* name never get the same output path, so the second job never takes the
\* rows the first wrote for its own completed rows.
C25_DistinctJobsDistinctStores ==
    (spc = "second_started" /\ job_a # job_b) =>
        /\ path_a # path_b
        /\ resume_b = 0

----------------------------------------------------------------------------
(* Specifications *)

BatchOff ==
    /\ df = <<>>
    /\ columns = <<>>
    /\ chat = <<>>
    /\ store = NoFile
    /\ store0 = NoFile
    /\ BatchIdle

FetchOff ==
    /\ fdata = None
    /\ clean_file = None
    /\ fpc = "idle"
    /\ work = <<>>
    /\ unique_articles = <<>>
    /\ fpos = 0
    /\ id_mappings = <<>>
    /\ fetched = <<>>
    /\ input0 = None
    /\ returned = None
    /\ exported = None
    /\ fruns = 0
    /\ input_file = None
    /\ cruns = 0
    /\ creport = None

DetailOff ==
    /\ reply = None
    /\ details = None

SetupOff ==
    /\ job_a = None
    /\ job_b = None
    /\ path_a = None
    /\ path_b = None
    /\ out_file = None
    /\ resume_b = 0
    /\ spc = "off"

MainOff ==
    /\ args = None
    /\ files_to_run = <<>>
    /\ job_files = <<>>
    /\ job_stores = <<>>
    /\ mpos = 0
    /\ mpc = "off"
    /\ mraised = None

\* The batch runner: runs of _process_single_file over one input, with kills
\* and restarts.
BatchSpecInit == BatchInit /\ FetchOff /\ DetailOff /\ MainOff /\ SetupOff

BatchSpec == BatchSpecInit /\ [][BatchNext]_vars

\* Runs of _process_single_file that are not killed: a started process keeps
\* taking the steps it can take. The call of a row whose endpoint never
\* answers is a step it cannot take.
LiveSpecInit == LiveInit /\ FetchOff /\ DetailOff /\ MainOff /\ SetupOff

LiveSpec ==
    /\ LiveSpecInit
    /\ [][LiveNext]_vars
    /\ WF_vars(Infer) /\ WF_vars(AppendRow) /\ WF_vars(Finish)

\* Two jobs run one after the other into the same output directory.
SetupSpecInit == SetupInit /\ BatchOff /\ FetchOff /\ DetailOff /\ MainOff

SetupSpec == SetupSpecInit /\ [][SetupNext]_vars

\* Runs of main() over the configured jobs.
MainSpecInit == MainInit /\ BatchOff /\ FetchOff /\ DetailOff /\ SetupOff

MainSpec == MainSpecInit /\ [][MainNext]_vars

\* Single calls of _get_article_details, one for every modelled reply.
DetailSpecInit == DetailInit /\ BatchOff /\ FetchOff /\ MainOff /\ SetupOff

DetailNext == GetArticleDetails

DetailSpec == DetailSpecInit /\ [][DetailNext]_vars

\* Calls of fetch_article_info on one fetcher.
FetchSpecInit == FetchInit /\ BatchOff /\ DetailOff /\ MainOff /\ SetupOff

FetchSpec == FetchSpecInit /\ [][FetchNext]_vars

====
